---- MODULE Spec2Model ----
(***************************************************************************)
(* Model of binance_api.py: the exchange access facade of mambatrade_v2.   *)
(* Every function of the file is a sequence of steps; a step that calls    *)
(* the exchange library or the HTTP transport chooses the call's outcome   *)
(* (a result, or an exception class) nondeterministically.  Program        *)
(* counters are named after the source line they stand at.                 *)
(* Message texts are the source's, transliterated to ASCII.                *)
(***************************************************************************)
EXTENDS Integers, Sequences, FiniteSets, TLC

VARIABLES
    fn,       \* the facade function the caller invoked ("" when idle)
    pc,       \* source line the execution stands at ("idle", "done")
    args,     \* the arguments of the invocation
    stack,    \* callers waiting for a nested facade call to return
    client,   \* the client handle in use (argument or local of line 25)
    order,    \* local `order` of create_market_order (line 90)
    data,     \* local `data` of the two public-endpoint functions
    calls,    \* every external call made by the invocation, in order
    status,   \* "idle", "running", "returned" or "raised"
    ret,      \* the value returned to the caller
    exc       \* the exception that reached the caller, "" if none

vars == <<fn, pc, args, stack, client, order, data, calls, status, ret, exc>>

----------------------------------------------------------------------------
(* Bounds of the model *)

\* longest list fetch_positions / the public endpoints answer with
MaxRows == 2
\* largest order amount, price, contract count and balance
MaxNum == 2

----------------------------------------------------------------------------
(* Python values *)

PyNone == [t |-> "None"]
Num(k) == [t |-> "num", n |-> k]
Str(x) == [t |-> "str", s |-> x]
Bool(b) == [t |-> "bool", b |-> b]
Pair(a, b) == [t |-> "tuple", fst |-> a, snd |-> b]
DataFrame(r) == [t |-> "DataFrame", rows |-> r]

\* v is None (a dict has no tag and is never None)
IsNone(v) == "t" \in DOMAIN v /\ v.t = "None"

\* bool(v): the truth value `if v:` and `not v` test
Truthy(v) ==
    CASE v.t = "None" -> FALSE
      [] v.t = "num" -> v.n # 0
      [] v.t = "str" -> v.s # ""
      [] v.t = "bool" -> v.b
      [] OTHER -> TRUE

\* dict.get(key, default)
DictGet(d, key, default) == IF key \in DOMAIN d THEN d[key] ELSE default

RECURSIVE SeqsUpTo(_, _)
\* the sequences over S of length at most n
SeqsUpTo(S, n) ==
    IF n = 0 THEN {<<>>}
    ELSE LET shorter == SeqsUpTo(S, n - 1) IN
         shorter \cup {Append(q, x) : q \in shorter, x \in S}

----------------------------------------------------------------------------
(* Exceptions *)

\* classes each exception is an instance of
Mro(e) ==
    CASE e = "AuthenticationError" ->
             {"AuthenticationError", "ExchangeError", "BaseError", "Exception"}
      [] e = "PermissionDenied" ->
             {"PermissionDenied", "AuthenticationError", "ExchangeError",
              "BaseError", "Exception"}
      [] e = "InsufficientFunds" ->
             {"InsufficientFunds", "ExchangeError", "BaseError", "Exception"}
      [] e = "NetworkError" -> {"NetworkError", "BaseError", "Exception"}
      [] e = "ConnectionError" ->
             {"ConnectionError", "RequestException", "Exception"}
      [] e = "HTTPError" -> {"HTTPError", "RequestException", "Exception"}
      [] e = "KeyError" -> {"KeyError", "Exception"}
      [] e = "ValueError" -> {"ValueError", "Exception"}
      [] OTHER -> {e, "Exception"}

\* what the exchange library's authenticated calls raise
CcxtErrors ==
    {"AuthenticationError", "PermissionDenied", "InsufficientFunds",
     "NetworkError"}
\* what requests.get / raise_for_status raise
RequestErrors == {"ConnectionError", "HTTPError"}

\* index of the first except clause that catches e, 0 when none does
ExceptClause(clauses, e) ==
    IF \E i \in 1..Len(clauses) : clauses[i] \in Mro(e)
    THEN CHOOSE i \in 1..Len(clauses) :
            /\ clauses[i] \in Mro(e)
            /\ \A j \in 1..(i - 1) : clauses[j] \notin Mro(e)
    ELSE 0

----------------------------------------------------------------------------
(* Messages *)

Msg(text) == [fmt |-> text, e |-> ""]
MsgE(text, e) == [fmt |-> text, e |-> e]

MsgNoClient == Msg("API anahtarlari ile istemci olusturulamadi.")
MsgConnected == Msg("API baglantisi basarili.")
MsgAuthError(e) == MsgE("Kimlik dogrulama hatasi: {e}", e)
MsgAnyError(e) == MsgE("Bir hata olustu: {e}", e)
MsgInvalidClient == Msg("Gecersiz istemci.")
MsgOrderCreated == Msg("Emir basariyla olusturuldu.")
MsgOrderError(e) == MsgE("Emir olusturulurken hata: {e}", e)

----------------------------------------------------------------------------
(* Inputs *)

Keys == {PyNone, Str(""), Str("key")}
Exchange(k, s) ==
    [t |-> "obj", cls |-> "ccxt.binance", apiKey |-> k, secret |-> s,
     defaultType |-> "future"]
Clients == {PyNone, Exchange("key", "secret")}
Symbols == {"BTC/USDT", "ETH/USDT"}
Sides == {"buy", "sell"}
Amounts == 1..MaxNum
\* a price argument: omitted (None), zero, or a positive price
Prices == {PyNone} \cup {Num(k) : k \in 0..MaxNum}

----------------------------------------------------------------------------
(* Control *)

Init ==
    /\ fn = ""
    /\ pc = "idle"
    /\ args = <<>>
    /\ stack = <<>>
    /\ client = PyNone
    /\ order = PyNone
    /\ data = <<>>
    /\ calls = <<>>
    /\ status = "idle"
    /\ ret = PyNone
    /\ exc = ""

\* the caller invokes function f with arguments a
Invoke(f, a, line) ==
    /\ pc = "idle"
    /\ fn' = f
    /\ args' = a
    /\ pc' = line
    /\ status' = "running"
    /\ UNCHANGED <<stack, order, data, calls, ret, exc>>

\* `return v` to the caller of the facade
Finish(v) ==
    /\ pc' = "done"
    /\ status' = "returned"
    /\ ret' = v
    /\ exc' = ""

\* an exception no except clause caught leaves the facade
Propagate(e) ==
    /\ pc' = "done"
    /\ status' = "raised"
    /\ ret' = PyNone
    /\ exc' = e

\* record an external call
Log(c) == calls' = Append(calls, c)

----------------------------------------------------------------------------
(* get_binance_client, lines 6-21 *)

\* except clauses of the try of lines 10-21
GbcClauses == <<"Exception">>

Call_get_binance_client ==
    \E k \in Keys, s \in Keys :
        /\ Invoke("get_binance_client", [api_key |-> k, secret_key |-> s], "L8")
        /\ client' = PyNone

\* `return v` of get_binance_client: to the caller, or to line 25
GbcReturn(v) ==
    IF stack = <<>>
    THEN Finish(v) /\ UNCHANGED <<stack, client>>
    ELSE /\ pc' = Head(stack)
         /\ stack' = Tail(stack)
         /\ client' = v
         /\ UNCHANGED <<status, ret, exc>>

\* lines 8-9
GbcCheck ==
    /\ pc = "L8"
    /\ IF ~Truthy(args.api_key) \/ ~Truthy(args.secret_key)
       THEN GbcReturn(PyNone)
       ELSE pc' = "L11" /\ UNCHANGED <<stack, client, status, ret, exc>>
    /\ UNCHANGED <<fn, args, order, data, calls>>

\* lines 10-21: ccxt.binance({...}) answers or raises
GbcConstruct ==
    /\ pc = "L11"
    /\ \E out \in {"ok", "Exception", "NetworkError"} :
        /\ Log([api |-> "ccxt.binance", out |-> out])
        /\ IF out = "ok"
           THEN GbcReturn(Exchange(args.api_key.s, args.secret_key.s))
           ELSE IF ExceptClause(GbcClauses, out) = 1
                THEN GbcReturn(PyNone)
                ELSE Propagate(out) /\ UNCHANGED <<stack, client>>
    /\ UNCHANGED <<fn, args, order, data>>

----------------------------------------------------------------------------
(* test_api_connection, lines 23-34 *)

\* faulty variants: the catch-all clause missing; the clauses in the
\* other order
TacClauses_AuthOnly == <<"AuthenticationError">>
TacClauses_Swapped == <<"Exception", "AuthenticationError">>
\* except clauses of the try of lines 28-34
TacClauses == <<"AuthenticationError", "Exception">>

\* line 25: client = get_binance_client(api_key, secret_key)
Call_test_api_connection ==
    \E k \in Keys, s \in Keys :
        /\ pc = "idle"
        /\ fn' = "test_api_connection"
        /\ args' = [api_key |-> k, secret_key |-> s]
        /\ stack' = <<"L26">>
        /\ pc' = "L8"
        /\ status' = "running"
        /\ client' = PyNone
        /\ UNCHANGED <<order, data, calls, ret, exc>>

\* lines 26-27
TacCheck ==
    /\ pc = "L26"
    /\ IF IsNone(client)
       THEN Finish(Pair(Bool(FALSE), MsgNoClient))
       ELSE pc' = "L29" /\ UNCHANGED <<status, ret, exc>>
    /\ UNCHANGED <<fn, args, stack, client, order, data, calls>>

\* lines 28-34: client.fetch_balance() answers or raises
TacFetch ==
    /\ pc = "L29"
    /\ \E out \in {"ok"} \cup CcxtErrors :
        /\ Log([api |-> "fetch_balance", out |-> out])
        /\ IF out = "ok"
           THEN Finish(Pair(Bool(TRUE), MsgConnected))
           ELSE LET c == ExceptClause(TacClauses, out) IN
                CASE c = 1 -> Finish(Pair(Bool(FALSE), MsgAuthError(out)))
                  [] c = 2 -> Finish(Pair(Bool(FALSE), MsgAnyError(out)))
                  [] OTHER -> Propagate(out)
    /\ UNCHANGED <<fn, args, stack, client, order, data>>

----------------------------------------------------------------------------
(* get_futures_balance, lines 36-46 *)

\* except clauses of the try of lines 40-46
GfbClauses == <<"Exception">>

Currencies == {"USDT", "BTC"}
\* what fetch_balance answers: the library's balance structure, whose
\* 'total' maps each currency the account holds to a number
Balances ==
    UNION {{[total |-> f] : f \in [held -> {Num(k) : k \in 0..MaxNum}]} :
              held \in SUBSET Currencies}

\* faulty variant: .get('USDT') without the default
UsdtTotal_NoDefault(balance) == DictGet(balance["total"], "USDT", PyNone)
\* line 42: balance['total'].get('USDT', 0)
UsdtTotal(balance) == DictGet(balance["total"], "USDT", Num(0))

Call_get_futures_balance ==
    \E c \in Clients :
        /\ Invoke("get_futures_balance", [client |-> c], "L38")
        /\ client' = c

\* lines 38-39
GfbCheck ==
    /\ pc = "L38"
    /\ IF ~Truthy(client)
       THEN Finish(PyNone)
       ELSE pc' = "L41" /\ UNCHANGED <<status, ret, exc>>
    /\ UNCHANGED <<fn, args, stack, client, order, data, calls>>

\* lines 40-46: client.fetch_balance() answers a balance or raises
GfbFetch ==
    /\ pc = "L41"
    /\ \/ \E balance \in Balances :
            /\ Log([api |-> "fetch_balance", out |-> "ok", res |-> balance])
            /\ IF "total" \in DOMAIN balance
               THEN Finish(UsdtTotal(balance))
               ELSE IF ExceptClause(GfbClauses, "KeyError") = 1
                    THEN Finish(PyNone)
                    ELSE Propagate("KeyError")
       \/ \E out \in CcxtErrors :
            /\ Log([api |-> "fetch_balance", out |-> out, res |-> PyNone])
            /\ IF ExceptClause(GfbClauses, out) = 1
               THEN Finish(PyNone)
               ELSE Propagate(out)
    /\ UNCHANGED <<fn, args, stack, client, order, data>>

----------------------------------------------------------------------------
(* create_market_order, lines 84-114 *)

\* faulty variant: the outer try catches network errors only
CmoClauses_NetworkOnly == <<"NetworkError">>
\* except clause of the outer try (line 113)
CmoClauses == <<"Exception">>
\* faulty variant: the take-profit try catches authentication errors only
TpClauses_AuthOnly == <<"AuthenticationError">>
\* except clause of the take-profit try (line 101)
TpClauses == <<"Exception">>
\* except clause of the stop-loss try (line 109)
SlClauses == <<"Exception">>

\* line 94
opposite_side(side) == IF side = "buy" THEN "sell" ELSE "buy"

\* what client.create_market_order answers
Orders(symbol, side, amount) ==
    {[t |-> "obj", id |-> i, symbol |-> symbol, side |-> side,
      amount |-> amount] : i \in 1..MaxNum}

\* the client.create_order call of lines 99 and 107
ProtectiveCall(type, stopPrice, out) ==
    [api |-> "create_order", symbol |-> args.symbol, type |-> type,
     side |-> opposite_side(args.side), amount |-> args.amount,
     price |-> PyNone,
     params |-> [stopPrice |-> stopPrice, reduceOnly |-> TRUE], out |-> out]

Call_create_market_order ==
    \E c \in Clients, sym \in Symbols, side \in Sides, amount \in Amounts,
       tp \in Prices, sl \in Prices :
        /\ Invoke("create_market_order",
                  [client |-> c, symbol |-> sym, side |-> side,
                   amount |-> amount, take_profit_price |-> tp,
                   stop_loss_price |-> sl], "L86")
        /\ client' = c

\* lines 86-87
CmoCheck ==
    /\ pc = "L86"
    /\ IF ~Truthy(client)
       THEN Finish(Pair(PyNone, MsgInvalidClient))
       ELSE pc' = "L90" /\ UNCHANGED <<status, ret, exc>>
    /\ UNCHANGED <<fn, args, stack, client, order, data, calls>>

\* lines 90-91 (and 113-114): the primary market order
CmoPrimary ==
    /\ pc = "L90"
    /\ \/ \E o \in Orders(args.symbol, args.side, args.amount) :
            /\ Log([api |-> "create_market_order", symbol |-> args.symbol,
                    side |-> args.side, amount |-> args.amount, out |-> "ok",
                    res |-> o])
            /\ order' = o
            /\ pc' = "L96"
            /\ UNCHANGED <<status, ret, exc>>
       \/ \E out \in CcxtErrors :
            /\ Log([api |-> "create_market_order", symbol |-> args.symbol,
                    side |-> args.side, amount |-> args.amount, out |-> out,
                    res |-> PyNone])
            /\ IF ExceptClause(CmoClauses, out) = 1
               THEN Finish(Pair(PyNone, MsgOrderError(out)))
               ELSE Propagate(out)
            /\ UNCHANGED order
    /\ UNCHANGED <<fn, args, stack, client, data>>

\* faulty variant: a failed protective order starts the function over
ProtectiveRaised_Retry(clauses, out, nextLine) ==
    pc' = "L90" /\ UNCHANGED <<status, ret, exc>>
\* a protective create_order raised `out` inside the try with `clauses`:
\* the inner clause swallows it, else the outer clause of line 113 takes it
ProtectiveRaised(clauses, out, nextLine) ==
    IF ExceptClause(clauses, out) = 1
    THEN pc' = nextLine /\ UNCHANGED <<status, ret, exc>>
    ELSE IF ExceptClause(CmoClauses, out) = 1
         THEN Finish(Pair(PyNone, MsgOrderError(out)))
         ELSE Propagate(out)

\* lines 96-102: the take-profit order
CmoTakeProfit ==
    /\ pc = "L96"
    /\ IF Truthy(args.take_profit_price)
       THEN \E out \in {"ok"} \cup CcxtErrors :
                /\ Log(ProtectiveCall("TAKE_PROFIT_MARKET",
                                      args.take_profit_price, out))
                /\ IF out = "ok"
                   THEN pc' = "L104" /\ UNCHANGED <<status, ret, exc>>
                   ELSE ProtectiveRaised(TpClauses, out, "L104")
       ELSE pc' = "L104" /\ UNCHANGED <<calls, status, ret, exc>>
    /\ UNCHANGED <<fn, args, stack, client, order, data>>

\* lines 104-110: the stop-loss order
CmoStopLoss ==
    /\ pc = "L104"
    /\ IF Truthy(args.stop_loss_price)
       THEN \E out \in {"ok"} \cup CcxtErrors :
                /\ Log(ProtectiveCall("STOP_MARKET",
                                      args.stop_loss_price, out))
                /\ IF out = "ok"
                   THEN pc' = "L112" /\ UNCHANGED <<status, ret, exc>>
                   ELSE ProtectiveRaised(SlClauses, out, "L112")
       ELSE pc' = "L112" /\ UNCHANGED <<calls, status, ret, exc>>
    /\ UNCHANGED <<fn, args, stack, client, order, data>>

\* line 112
CmoReturn ==
    /\ pc = "L112"
    /\ Finish(Pair(order, MsgOrderCreated))
    /\ UNCHANGED <<fn, args, stack, client, order, data, calls>>

----------------------------------------------------------------------------
(* get_position, lines 158-171 *)

\* except clause of the try of lines 162-171
GpClauses == <<"Exception">>

\* a position descriptor: a dict that may lack the 'contracts' key, or
\* hold None or a number under it
Positions ==
    {[symbol |-> s] : s \in Symbols}
      \cup {[symbol |-> s, contracts |-> c] :
               s \in Symbols, c \in {PyNone} \cup {Num(k) : k \in 0..MaxNum}}

\* faulty variant: the last descriptor instead of the first
LastPosition(positions) == positions[Len(positions)]
\* line 165
FirstPosition(positions) == positions[1]

\* faulty variant: only the presence of the key is tested
HasContracts_KeyOnly(position) == "contracts" \in DOMAIN position
\* line 166: position.get('contracts') and position['contracts'] != 0
HasContracts(position) ==
    /\ Truthy(DictGet(position, "contracts", PyNone))
    /\ ~(position["contracts"].t = "num" /\ position["contracts"].n = 0)

\* lines 164-168
PositionResult(positions) ==
    IF positions # <<>> /\ HasContracts(FirstPosition(positions))
    THEN FirstPosition(positions)
    ELSE PyNone

Call_get_position ==
    \E c \in Clients, sym \in Symbols :
        /\ Invoke("get_position", [client |-> c, symbol |-> sym], "L160")
        /\ client' = c

\* lines 160-161
GpCheck ==
    /\ pc = "L160"
    /\ IF ~Truthy(client)
       THEN Finish(PyNone)
       ELSE pc' = "L163" /\ UNCHANGED <<status, ret, exc>>
    /\ UNCHANGED <<fn, args, stack, client, order, data, calls>>

\* lines 162-171: client.fetch_positions([symbol]) answers a list or raises
GpFetch ==
    /\ pc = "L163"
    /\ \/ \E positions \in SeqsUpTo(Positions, MaxRows) :
            /\ Log([api |-> "fetch_positions", symbols |-> <<args.symbol>>,
                    out |-> "ok"])
            /\ data' = positions
            /\ Finish(PositionResult(positions))
       \/ \E out \in CcxtErrors :
            /\ Log([api |-> "fetch_positions", symbols |-> <<args.symbol>>,
                    out |-> out])
            /\ IF ExceptClause(GpClauses, out) = 1
               THEN Finish(PyNone)
               ELSE Propagate(out)
            /\ UNCHANGED data
    /\ UNCHANGED <<fn, args, stack, client, order>>

----------------------------------------------------------------------------
(* Strings the public-endpoint functions take apart, as character tuples *)

BTC_USDT == <<"B", "T", "C", "/", "U", "S", "D", "T">>
ETH_USDT == <<"E", "T", "H", "/", "U", "S", "D", "T">>
BTCUSDT == <<"B", "T", "C", "U", "S", "D", "T">>
ETHUSDT == <<"E", "T", "H", "U", "S", "D", "T">>
ETHBTC == <<"E", "T", "H", "B", "T", "C">>
USDT == <<"U", "S", "D", "T">>

\* s.replace('/', '')
RemoveSlash(s) == LET NotSlash(c) == c # "/" IN SelectSeq(s, NotSlash)

\* s.endswith('USDT')
EndsWithUSDT(s) == Len(s) >= Len(USDT) /\ SubSeq(s, Len(s) - 3, Len(s)) = USDT

\* line 148: f"{s[:-4]}/{s[-4:]}" if s.endswith('USDT') else s
FormatSymbol(s) ==
    IF EndsWithUSDT(s)
    THEN SubSeq(s, 1, Len(s) - 4) \o <<"/">> \o SubSeq(s, Len(s) - 3, Len(s))
    ELSE s

\* the texts the endpoints send for a number, and their float() value;
\* any other text is not a number
NumberTexts == {"0", "1", "2"}
FloatOf(x) == CASE x = "0" -> 0 [] x = "1" -> 1 [] x = "2" -> 2

----------------------------------------------------------------------------
(* get_historical_data, lines 48-82 *)

\* except clauses of the try of lines 51-82
GhdClauses == <<"RequestException", "Exception">>

\* a row of the klines answer: its number of columns, its open time and
\* the text of its price and volume columns
KlineColumns == 12
Klines ==
    {[len |-> KlineColumns, ts |-> 1, px |-> "1"],
     [len |-> KlineColumns, ts |-> 2, px |-> "abc"],
     [len |-> KlineColumns - 1, ts |-> 1, px |-> "2"]}

\* lines 68-74 raise on a row of another width or a column that is no number
KlinesFit(rows) ==
    \A i \in 1..Len(rows) :
        rows[i].len = KlineColumns /\ rows[i].px \in NumberTexts

\* lines 68-74: index by timestamp, keep open..volume, convert to float
KlineRow(r) ==
    [timestamp |-> r.ts, open |-> FloatOf(r.px), high |-> FloatOf(r.px),
     low |-> FloatOf(r.px), close |-> FloatOf(r.px), volume |-> FloatOf(r.px)]

\* lines 68-74 over all rows
KlineRows(rows) == [i \in 1..Len(rows) |-> KlineRow(rows[i])]

Call_get_historical_data ==
    \E c \in Clients, sym \in {BTC_USDT, ETH_USDT} :
        /\ Invoke("get_historical_data",
                  [client |-> c, symbol |-> sym, timeframe |-> "1h",
                   limit |-> 100], "L53")
        /\ client' = c

\* lines 53-62: requests.get(...) and raise_for_status()
GhdGet ==
    /\ pc = "L53"
    /\ \E out \in {"ok"} \cup RequestErrors :
        /\ Log([api |-> "requests.get", url |-> "fapi/v1/klines",
                params |-> [symbol |-> RemoveSlash(args.symbol),
                            interval |-> args.timeframe,
                            limit |-> args.limit],
                timeout |-> 10, out |-> out])
        /\ IF out = "ok"
           THEN pc' = "L63" /\ UNCHANGED <<status, ret, exc>>
           ELSE IF ExceptClause(GhdClauses, out) \in {1, 2}
                THEN Finish(PyNone)
                ELSE Propagate(out)
    /\ UNCHANGED <<fn, args, stack, client, order, data>>

\* line 63: response.json() answers the rows or raises
GhdJson ==
    /\ pc = "L63"
    /\ \/ \E rows \in SeqsUpTo(Klines, MaxRows) :
            /\ Log([api |-> "response.json", out |-> "ok"])
            /\ data' = rows
            /\ pc' = "L65"
            /\ UNCHANGED <<status, ret, exc>>
       \/ /\ Log([api |-> "response.json", out |-> "ValueError"])
          /\ IF ExceptClause(GhdClauses, "ValueError") \in {1, 2}
             THEN Finish(PyNone)
             ELSE Propagate("ValueError")
          /\ UNCHANGED data
    /\ UNCHANGED <<fn, args, stack, client, order>>

\* lines 65-76 (and 80-82)
GhdFrame ==
    /\ pc = "L65"
    /\ IF data = <<>>
       THEN Finish(DataFrame(<<>>))
       ELSE IF KlinesFit(data)
            THEN Finish(DataFrame(KlineRows(data)))
            ELSE IF ExceptClause(GhdClauses, "ValueError") \in {1, 2}
                 THEN Finish(PyNone)
                 ELSE Propagate("ValueError")
    /\ UNCHANGED <<fn, args, stack, client, order, data, calls>>

----------------------------------------------------------------------------
(* get_24h_ticker, lines 116-156 *)

\* except clauses of the try of lines 118-156
TickerClauses == <<"RequestException", "Exception">>

\* an element of the ticker answer; one of them lacks the 'symbol' key
Tickers ==
    {[symbol |-> BTCUSDT, priceChangePercent |-> "1", lastPrice |-> "2",
      quoteVolume |-> "1"],
     [symbol |-> ETHBTC, priceChangePercent |-> "1", lastPrice |-> "1",
      quoteVolume |-> "0"],
     [symbol |-> ETHUSDT, priceChangePercent |-> "2", lastPrice |-> "abc",
      quoteVolume |-> "1"],
     [priceChangePercent |-> "1", lastPrice |-> "1", quoteVolume |-> "1"]}

\* line 125 raises KeyError on an element without 'symbol'
TickersFit(tickers) ==
    \A i \in 1..Len(tickers) : "symbol" \in DOMAIN tickers[i]

\* line 125
UsdtTickers(tickers) ==
    LET IsUsdt(x) == EndsWithUSDT(x["symbol"]) IN SelectSeq(tickers, IsUsdt)

\* lines 142-144: pd.to_numeric(errors='coerce'); "NaN" for no number
ToNumeric(x) == IF x \in NumberTexts THEN Num(FloatOf(x)) ELSE [t |-> "NaN"]

\* lines 133-148: the row of the table made of ticker x
TickerRow(x) ==
    [Sembol |-> FormatSymbol(x["symbol"]),
     Degisim |-> ToNumeric(x["priceChangePercent"]),
     SonFiyat |-> ToNumeric(x["lastPrice"]),
     Hacim |-> ToNumeric(x["quoteVolume"])]

\* lines 130-148 over all rows
TickerRows(tickers) == [i \in 1..Len(tickers) |-> TickerRow(tickers[i])]

\* line 150: df.dropna()
DropNa(rows) ==
    LET Whole(r) == /\ r.Degisim.t # "NaN"
                    /\ r.SonFiyat.t # "NaN"
                    /\ r.Hacim.t # "NaN"
    IN SelectSeq(rows, Whole)

Call_get_24h_ticker ==
    /\ Invoke("get_24h_ticker", <<>>, "L120")
    /\ client' = PyNone

\* lines 119-121: requests.get(...) and raise_for_status()
TickerGet ==
    /\ pc = "L120"
    /\ \E out \in {"ok"} \cup RequestErrors :
        /\ Log([api |-> "requests.get", url |-> "fapi/v1/ticker/24hr",
                timeout |-> 10, out |-> out])
        /\ IF out = "ok"
           THEN pc' = "L122" /\ UNCHANGED <<status, ret, exc>>
           ELSE IF ExceptClause(TickerClauses, out) \in {1, 2}
                THEN Finish(PyNone)
                ELSE Propagate(out)
    /\ UNCHANGED <<fn, args, stack, client, order, data>>

\* line 122: response.json() answers the tickers or raises
TickerJson ==
    /\ pc = "L122"
    /\ \/ \E tickers \in SeqsUpTo(Tickers, MaxRows) :
            /\ Log([api |-> "response.json", out |-> "ok"])
            /\ data' = tickers
            /\ pc' = "L125"
            /\ UNCHANGED <<status, ret, exc>>
       \/ /\ Log([api |-> "response.json", out |-> "ValueError"])
          /\ IF ExceptClause(TickerClauses, "ValueError") \in {1, 2}
             THEN Finish(PyNone)
             ELSE Propagate("ValueError")
          /\ UNCHANGED data
    /\ UNCHANGED <<fn, args, stack, client, order>>

\* lines 125-150 (and 154-156)
TickerFrame ==
    /\ pc = "L125"
    /\ IF ~TickersFit(data)
       THEN IF ExceptClause(TickerClauses, "KeyError") \in {1, 2}
            THEN Finish(PyNone)
            ELSE Propagate("KeyError")
       ELSE IF UsdtTickers(data) = <<>>
            THEN Finish(DataFrame(<<>>))
            ELSE Finish(DataFrame(DropNa(TickerRows(UsdtTickers(data)))))
    /\ UNCHANGED <<fn, args, stack, client, order, data, calls>>

----------------------------------------------------------------------------

\* the caller takes the result; the facade keeps no state between calls
Reset ==
    /\ pc = "done"
    /\ fn' = ""
    /\ pc' = "idle"
    /\ args' = <<>>
    /\ stack' = <<>>
    /\ client' = PyNone
    /\ order' = PyNone
    /\ data' = <<>>
    /\ calls' = <<>>
    /\ status' = "idle"
    /\ ret' = PyNone
    /\ exc' = ""

Next ==
    \/ Call_get_binance_client
    \/ GbcCheck
    \/ GbcConstruct
    \/ Call_test_api_connection
    \/ TacCheck
    \/ TacFetch
    \/ Call_get_futures_balance
    \/ GfbCheck
    \/ GfbFetch
    \/ Call_create_market_order
    \/ CmoCheck
    \/ CmoPrimary
    \/ CmoTakeProfit
    \/ CmoStopLoss
    \/ CmoReturn
    \/ Call_get_position
    \/ GpCheck
    \/ GpFetch
    \/ Call_get_historical_data
    \/ GhdGet
    \/ GhdJson
    \/ GhdFrame
    \/ Call_get_24h_ticker
    \/ TickerGet
    \/ TickerJson
    \/ TickerFrame
    \/ Reset

Spec == Init /\ [][Next]_vars

----------------------------------------------------------------------------
(* Properties *)

Done == pc = "done"
IsPair(v) == "t" \in DOMAIN v /\ v.t = "tuple"
Failed(i) == calls[i].out # "ok"
InCmo == fn = "create_market_order"
PrimaryOk ==
    /\ calls # <<>>
    /\ calls[1].api = "create_market_order"
    /\ calls[1].out = "ok"
PrimaryRaised ==
    /\ calls # <<>>
    /\ calls[1].api = "create_market_order"
    /\ calls[1].out # "ok"
\* positions in the log of the protective calls of the given order type
ProtectiveCalls(type) ==
    {i \in DOMAIN calls :
        calls[i].api = "create_order" /\ calls[i].type = type}
TpCalls == ProtectiveCalls("TAKE_PROFIT_MARKET")
SlCalls == ProtectiveCalls("STOP_MARKET")

\* C1: in create_market_order, once the primary call has succeeded the
\* function returns (the order that call answered, the success message),
\* whatever the two prices are and whether the protective calls succeed
\* or raise.
C1_PrimaryOutcomeKept ==
    (InCmo /\ Done /\ PrimaryOk) =>
        /\ status = "returned"
        /\ ret = Pair(calls[1].res, MsgOrderCreated)

\* a finished create_market_order whose primary order succeeded and whose
\* take-profit and stop-loss calls both raised
C1_Witness ==
    /\ InCmo /\ Done /\ PrimaryOk
    /\ \E i \in TpCalls : Failed(i)
    /\ \E i \in SlCalls : Failed(i)
    /\ ret = Pair(calls[1].res, MsgOrderCreated)

\* C2: in create_market_order, a raising primary call makes the function
\* return (None, the order-error message), never the success message; a
\* missing client gives the same (None, message) shape.
C2_PrimaryFailure ==
    (InCmo /\ Done) =>
        /\ PrimaryRaised =>
              /\ status = "returned"
              /\ IsPair(ret)
              /\ IsNone(ret.fst)
              /\ ret.snd = MsgOrderError(calls[1].out)
              /\ ret.snd # MsgOrderCreated
        /\ ~Truthy(args.client) =>
              /\ status = "returned"
              /\ ret = Pair(PyNone, MsgInvalidClient)

\* a finished create_market_order whose primary call raised
C2_Witness ==
    /\ InCmo /\ Done /\ PrimaryRaised
    /\ Truthy(args.client)
    /\ IsPair(ret) /\ IsNone(ret.fst)

\* the claimed protective call for price `price` of order type `type`:
\* exactly one such call, reduce-only, at that stop price, for the
\* primary amount, on the opposite side
OneProtective(type, price) ==
    /\ Cardinality(ProtectiveCalls(type)) = 1
    /\ \A i \in ProtectiveCalls(type) :
          /\ calls[i].params.reduceOnly = TRUE
          /\ calls[i].params.stopPrice = price
          /\ calls[i].amount = args.amount
          /\ calls[i].side = (IF args.side = "buy" THEN "sell" ELSE "buy")
          /\ calls[i].symbol = args.symbol

\* C3: after a successful primary order, every supplied (non-None)
\* take-profit price gets exactly one TAKE_PROFIT_MARKET call and every
\* supplied stop-loss price exactly one STOP_MARKET call, the price 0
\* included.
C3_AsStated ==
    (InCmo /\ Done /\ PrimaryOk) =>
        /\ ~IsNone(args.take_profit_price) =>
              OneProtective("TAKE_PROFIT_MARKET", args.take_profit_price)
        /\ ~IsNone(args.stop_loss_price) =>
              OneProtective("STOP_MARKET", args.stop_loss_price)

\* what the code does instead: the calls are made for the prices that are
\* neither None nor zero, and for no other
C3_NonzeroPrices ==
    (InCmo /\ Done /\ PrimaryOk) =>
        /\ IF Truthy(args.take_profit_price)
           THEN OneProtective("TAKE_PROFIT_MARKET", args.take_profit_price)
           ELSE TpCalls = {}
        /\ IF Truthy(args.stop_loss_price)
           THEN OneProtective("STOP_MARKET", args.stop_loss_price)
           ELSE SlCalls = {}

\* C4: with both prices supplied (non-None) and the primary order
\* successful, the stop-loss call is attempted whether the take-profit
\* call succeeded or raised.
C4_AsStated ==
    (/\ InCmo /\ Done /\ PrimaryOk
     /\ ~IsNone(args.take_profit_price)
     /\ ~IsNone(args.stop_loss_price)) => SlCalls # {}

\* the independence the code does have: once a take-profit call was made,
\* whatever its outcome, a nonzero stop-loss price gets its call
C4_NonzeroPrices ==
    (/\ InCmo /\ Done /\ PrimaryOk
     /\ TpCalls # {}
     /\ Truthy(args.stop_loss_price)) => SlCalls # {}

\* the value each function returns for a failure
Sentinel(f, v) ==
    CASE f = "test_api_connection" -> IsPair(v) /\ v.fst = Bool(FALSE)
      [] f = "create_market_order" -> IsPair(v) /\ IsNone(v.fst)
      [] OTHER -> IsNone(v)

\* C5 as stated: no function lets an exception out, and whenever one of
\* its external calls raised it returns its sentinel.
C5_AsStated ==
    /\ status # "raised"
    /\ (Done /\ \E i \in DOMAIN calls : Failed(i)) =>
          status = "returned" /\ Sentinel(fn, ret)

\* C5: no function lets an exception out; whenever an external call
\* other than a protective create_order raised, the function returns its
\* sentinel; when only protective create_order calls raised,
\* create_market_order returns (primary order, success message).
C5_NothingPropagates ==
    /\ status # "raised"
    /\ Done => status = "returned" /\ exc = ""
    /\ (Done /\ \E i \in DOMAIN calls :
                    Failed(i) /\ calls[i].api # "create_order") =>
          Sentinel(fn, ret)
    /\ (/\ Done
        /\ \E i \in DOMAIN calls : Failed(i)
        /\ \A i \in DOMAIN calls : Failed(i) => calls[i].api = "create_order")
          => ret = Pair(calls[1].res, MsgOrderCreated)

\* a function that finished by returning its sentinel after an external
\* call raised
C5_Witness ==
    /\ Done
    /\ fn \in {"get_position", "get_historical_data", "get_24h_ticker"}
    /\ \E i \in DOMAIN calls : Failed(i)
    /\ status = "returned"
    /\ IsNone(ret)

InGp == fn = "get_position"
NonzeroContracts(d) ==
    /\ "contracts" \in DOMAIN d
    /\ "t" \in DOMAIN d["contracts"]
    /\ d["contracts"].t = "num"
    /\ d["contracts"].n # 0
FetchedPositions ==
    /\ calls # <<>>
    /\ calls[1].api = "fetch_positions"
    /\ calls[1].out = "ok"

\* C6: get_position returns a descriptor only if the descriptor carries a
\* nonzero contract count; with a missing client, a raising
\* fetch_positions, an empty list, or a zero, None or absent contract
\* count it returns None.
C6_OnlyOpenPositions ==
    (InGp /\ Done) =>
        /\ status = "returned"
        /\ ~IsNone(ret) => NonzeroContracts(ret)
        /\ ~Truthy(args.client) => IsNone(ret)
        /\ (calls # <<>> /\ Failed(1)) => IsNone(ret)
        /\ (FetchedPositions /\ data = <<>>) => IsNone(ret)
        /\ (FetchedPositions /\ data # <<>> /\ ~NonzeroContracts(data[1]))
              => IsNone(ret)

\* get_position finished on a list whose first descriptor has a zero
\* contract count
C6_Witness ==
    /\ InGp /\ Done /\ FetchedPositions
    /\ data # <<>>
    /\ "contracts" \in DOMAIN data[1]
    /\ data[1]["contracts"] = Num(0)
    /\ IsNone(ret)

InTac == fn = "test_api_connection"
Fetches == {i \in DOMAIN calls : calls[i].api = "fetch_balance"}
Built ==
    /\ calls # <<>>
    /\ calls[1].api = "ccxt.binance"
    /\ calls[1].out = "ok"
BuildRaised ==
    /\ calls # <<>>
    /\ calls[1].api = "ccxt.binance"
    /\ calls[1].out # "ok"
CredentialsMissing == ~Truthy(args.api_key) \/ ~Truthy(args.secret_key)
IsAuthError(e) == e # "ok" /\ "AuthenticationError" \in Mro(e)

\* C7: test_api_connection returns (True, success) exactly when the
\* client was built and the single fetch_balance call succeeded, and
\* (False, message) otherwise: the authentication message exactly when
\* fetch_balance raised an authentication error, the generic message
\* exactly when it raised another error, and the no-client message, with
\* no fetch_balance call, exactly when credentials are missing or the
\* construction raised.
C7_ConnectionVerdict ==
    (InTac /\ Done) =>
        /\ status = "returned"
        /\ IsPair(ret)
        /\ Cardinality(Fetches) <= 1
        /\ (ret = Pair(Bool(TRUE), MsgConnected))
              <=> (Built /\ \E i \in Fetches : ~Failed(i))
        /\ (ret # Pair(Bool(TRUE), MsgConnected)) => ret.fst = Bool(FALSE)
        /\ (\E e \in CcxtErrors : ret.snd = MsgAuthError(e))
              <=> (\E i \in Fetches : IsAuthError(calls[i].out))
        /\ (\E e \in CcxtErrors : ret.snd = MsgAnyError(e))
              <=> (\E i \in Fetches :
                      Failed(i) /\ ~IsAuthError(calls[i].out))
        /\ \A i \in Fetches :
              Failed(i) => ret.snd.e = calls[i].out
        /\ (ret.snd = MsgNoClient) <=> (CredentialsMissing \/ BuildRaised)
        /\ (CredentialsMissing \/ BuildRaised) => Fetches = {}
        /\ CredentialsMissing => calls = <<>>

\* test_api_connection finished after fetch_balance raised an
\* authentication error
C7_Witness ==
    /\ InTac /\ Done /\ Built
    /\ \E i \in Fetches : calls[i].out = "PermissionDenied"
    /\ ret = Pair(Bool(FALSE), MsgAuthError("PermissionDenied"))

InGfb == fn = "get_futures_balance"
FetchedBalance ==
    /\ calls # <<>>
    /\ calls[1].api = "fetch_balance"
    /\ calls[1].out = "ok"

\* C8: get_futures_balance returns the USDT total as a number whenever
\* the client is present and fetch_balance succeeds, 0 when the balance
\* has no USDT entry, and returns None only when the client is missing or
\* the fetch raised.
C8_UsdtTotal ==
    (InGfb /\ Done) =>
        /\ status = "returned"
        /\ (Truthy(args.client) /\ FetchedBalance) =>
              /\ ret.t = "num"
              /\ "USDT" \in DOMAIN calls[1].res.total
                    => ret = calls[1].res.total["USDT"]
              /\ "USDT" \notin DOMAIN calls[1].res.total => ret = Num(0)
        /\ IsNone(ret) =>
              \/ ~Truthy(args.client)
              \/ (calls # <<>> /\ Failed(1))

\* get_futures_balance finished on a balance without a USDT entry
C8_Witness ==
    /\ InGfb /\ Done /\ FetchedBalance
    /\ "USDT" \notin DOMAIN calls[1].res.total
    /\ "BTC" \in DOMAIN calls[1].res.total
    /\ ret = Num(0)

\* C9: at every moment of create_market_order the exchange calls made so
\* far are: nothing with a missing client; else at most one primary
\* call, first; protective calls only after a successful primary call;
\* at most one take-profit and one stop-loss call, the take-profit call
\* before the stop-loss call.
C9_CallOrder ==
    InCmo =>
        /\ ~Truthy(args.client) => calls = <<>>
        /\ Len(calls) <= 3
        /\ \A i \in DOMAIN calls :
              (calls[i].api = "create_market_order") <=> (i = 1)
        /\ \A i \in DOMAIN calls :
              i > 1 => calls[i].api = "create_order" /\ PrimaryOk
        /\ Cardinality(TpCalls) <= 1
        /\ Cardinality(SlCalls) <= 1
        /\ Cardinality(TpCalls) + Cardinality(SlCalls) = Len(calls) - 1
              \/ calls = <<>>
        /\ \A i \in TpCalls : \A j \in SlCalls : i < j

\* create_market_order made all three calls, the take-profit one raising
C9_Witness ==
    /\ InCmo /\ Done
    /\ Len(calls) = 3
    /\ TpCalls = {2} /\ SlCalls = {3}
    /\ Failed(2)

\* C10: the result of get_position is decided by the first descriptor of
\* the fetched list alone: it is that descriptor when its contract count
\* is nonzero and None otherwise, whatever the later descriptors hold.
C10_FirstDescriptorDecides ==
    (InGp /\ Done /\ FetchedPositions /\ data # <<>>) =>
        /\ IsNone(ret) \/ ret = data[1]
        /\ IF NonzeroContracts(data[1]) THEN ret = data[1] ELSE IsNone(ret)

\* get_position returned None on a list whose first descriptor has no
\* contracts and whose second descriptor, for the asked symbol, has some
C10_Witness ==
    /\ InGp /\ Done /\ FetchedPositions
    /\ Len(data) >= 2
    /\ ~NonzeroContracts(data[1])
    /\ NonzeroContracts(data[2])
    /\ data[2]["symbol"] = args.symbol
    /\ IsNone(ret)

====
